---- MODULE Spec2Model ----
(***************************************************************************)
(* A model of gPodder's extension runtime (src/gpodder/extensions.py):     *)
(* discovery of extension files, ExtensionMetadata.check_ui,               *)
(* ExtensionContainer.set_enabled / load_extension, the ExtensionManager   *)
(* constructor, its configuration observer, shutdown, and the              *)
(* call_extensions hook fan-out.                                           *)
(*                                                                         *)
(* Text is modelled as sequences of one-character strings, so that the     *)
(* path and metadata parsing is computed the way the code computes it.     *)
(***************************************************************************)
EXTENDS Naturals, Sequences, FiniteSets, TLC

VARIABLES
    phase,               \* "new" before ExtensionManager(core), then "running"
    op,                  \* the last call the host made, with its arguments
    environ_filenames,   \* os.environ['GPODDER_EXTENSIONS'].split()
    environ_disable,     \* os.environ['GPODDER_DISABLE_EXTENSIONS']
    existing,            \* the paths for which os.path.exists() is true
    ui,                  \* the boolean flags of gpodder.ui
    config_enabled,      \* core.config.extensions.enabled (the persisted set)
    filenames,           \* ExtensionManager.filenames
    containers,          \* ExtensionManager.containers
    stack,               \* activations of _config_value_changed, innermost last
    calls,               \* what the last host operation invoked, in order
    propagated,          \* the exception that escaped the last host operation
    retained,            \* the list object an extension keeps between hook calls
    result,              \* what the last hook dispatch returned
    returns,             \* what each hook returned during the last dispatch
    args                 \* the arguments of the call a pure function is checked on

vars == << phase, op, environ_filenames, environ_disable, existing, ui,
           config_enabled, filenames, containers, stack, calls, propagated,
           retained, result, returns, args >>

(***************************************************************************)
(* Bounds of the model.                                                    *)
(***************************************************************************)
\* longest GPODDER_EXTENSIONS list in the discovery specification
MaxScan == 3
\* most extension files present on disk in the lifecycle specifications
MaxFiles == 2
\* longest list an extension's hook may have grown to before a dispatch
MaxListLen == 3
\* most extension files present on disk in the host specification
MaxHosted == 1
\* most pieces a metadata field handed to check_ui is made of
MaxPieces == 4

\* Python's None
None == [cls |-> "None"]

\* no pure function is under check
NoCall == [call |-> "none"]

(***************************************************************************)
(* Text helpers.                                                           *)
(***************************************************************************)
\* The characters the model's texts are made of, in code point order.
Alphabet ==
    << " ", ",", ".", "/", "1", "2", "C", "G", "_", "b", "c", "f", "g",
       "h", "i", "k", "l", "p", "t", "u", "x", "y" >>

\* ord(c), up to an order isomorphism
Ord(c) == CHOOSE i \in 1..Len(Alphabet) : Alphabet[i] = c

\* str.__lt__: lexicographic comparison by code point
RECURSIVE StrLess(_, _)
StrLess(a, b) ==
    IF b = << >> THEN FALSE
    ELSE IF a = << >> THEN TRUE
    ELSE IF Ord(Head(a)) < Ord(Head(b)) THEN TRUE
    ELSE IF Ord(Head(a)) > Ord(Head(b)) THEN FALSE
    ELSE StrLess(Tail(a), Tail(b))

\* the last index of character c in s, 0 when absent
LastIndex(s, c) ==
    IF \E i \in 1..Len(s) : s[i] = c
    THEN CHOOSE i \in 1..Len(s) : s[i] = c /\ \A j \in (i+1)..Len(s) : s[j] # c
    ELSE 0

\* os.path.basename
Basename(path) == SubSeq(path, LastIndex(path, "/") + 1, Len(path))

\* os.path.splitext(p)[0]: cut at the last dot, unless the dot only leads
\* the name (a leading run of dots belongs to the root)
SplitextRoot(base) ==
    LET d == LastIndex(base, ".")
    IN  IF d = 0 \/ \A i \in 1..d : base[i] = "." THEN base
        ELSE SubSeq(base, 1, d - 1)

Digits == {"1", "2"}

\* re.sub(r'^[0-9]*_', '', name)
StripOrderingPrefix(name) ==
    LET k == CHOOSE n \in 0..Len(name) :
                 /\ \A i \in 1..n : name[i] \in Digits
                 /\ (n < Len(name) => name[n + 1] \notin Digits)
    IN  IF k < Len(name) /\ name[k + 1] = "_"
        THEN SubSeq(name, k + 2, Len(name))
        ELSE name

\* the extension name _find_extensions derives from a path
DerivedName(path) == StripOrderingPrefix(SplitextRoot(Basename(path)))

\* os.path.dirname, with the separator kept
Dirname(path) == SubSeq(path, 1, LastIndex(path, "/"))

\* str.endswith
EndsWith(s, suffix) ==
    /\ Len(s) >= Len(suffix)
    /\ SubSeq(s, Len(s) - Len(suffix) + 1, Len(s)) = suffix

\* str.split(sep) for a one-character separator
RECURSIVE Split(_, _)
Split(s, sep) ==
    IF \A i \in 1..Len(s) : s[i] # sep THEN << s >>
    ELSE LET k == CHOOSE i \in 1..Len(s) :
                      s[i] = sep /\ \A j \in 1..(i - 1) : s[j] # sep
         IN  << SubSeq(s, 1, k - 1) >> \o Split(SubSeq(s, k + 1, Len(s)), sep)

\* str.strip()
RECURSIVE Strip(_)
Strip(s) ==
    IF s = << >> THEN s
    ELSE IF Head(s) = " " THEN Strip(Tail(s))
    ELSE IF s[Len(s)] = " " THEN Strip(SubSeq(s, 1, Len(s) - 1))
    ELSE s

\* str.lower()
LowerChar(c) == CASE c = "G" -> "g" [] c = "C" -> "c" [] OTHER -> c
Lower(s) == [i \in 1..Len(s) |-> LowerChar(s[i])]

\* all orderings of a finite set, as sequences
RECURSIVE Orderings(_)
Orderings(S) ==
    IF S = {} THEN { << >> }
    ELSE UNION { { << x >> \o o : o \in Orderings(S \ {x}) } : x \in S }

\* all sequences over S of length at most n
SeqsUpTo(S, n) == UNION { [1..k -> S] : k \in 0..n }

(***************************************************************************)
(* The extension files of the model's file system.  A file is its path;    *)
(* FileMetadata gives what _load_metadata scans out of its text and        *)
(* FileDefines the attributes its gPodderExtension class defines.          *)
(***************************************************************************)
BuiltinsDir == << "b", "/" >>
UserDir == << "u", "/" >>
DotPy == << ".", "p", "y" >>

File_b_1_f == BuiltinsDir \o << "1", "_", "f" >> \o DotPy
File_b_f == BuiltinsDir \o << "f" >> \o DotPy
File_u_f == UserDir \o << "f" >> \o DotPy
File_b_2_g == BuiltinsDir \o << "2", "_", "g" >> \o DotPy
File_u__g == UserDir \o << "_", "g" >> \o DotPy
File_u_1h == UserDir \o << "1", "h" >> \o DotPy

Files == { File_b_1_f, File_b_f, File_u_f, File_b_2_g, File_u__g, File_u_1h }

Name_f == << "f" >>
Name_g == << "g" >>
Name_1h == << "1", "h" >>

gtk == << "g", "t", "k" >>
cli == << "c", "l", "i" >>
\* "gtk, cli", the __only_for__ of rockbox_coverart.py
gtk_cli == gtk \o << ",", " " >> \o cli

\* re.findall(r"__([a-z_]+)__ = '([^']+)'", extension_py) of each file
FileMetadata(path) ==
    CASE path = File_b_1_f -> [title |-> << "F", "1" >>]
      [] path = File_b_f -> [category |-> "interface", disable_in |-> cli]
      [] path = File_u_f ->
             [title |-> << "R", "b" >>, category |-> "post-download",
              only_for |-> gtk_cli]
      [] path = File_b_2_g -> [mandatory_in |-> gtk, category |-> "x"]
      [] path = File_u__g -> [mandatory_in |-> << "G", "t", "k" >>, disable_in |-> gtk_cli]
      [] OTHER -> [only_for |-> cli]

\* the attributes of the gPodderExtension instance a file defines
FileDefines(path) ==
    CASE path = File_b_1_f -> {"on_load", "on_unload", "on_create_menu"}
      [] path = File_b_f -> {"on_load", "on_create_menu", "on_preferences"}
      [] path = File_u_f -> {"on_unload", "on_preferences"}
      [] path = File_b_2_g -> {"on_load", "on_unload", "on_create_menu"}
      [] path = File_u__g -> {"on_create_menu"}
      [] OTHER -> {"on_load", "on_unload", "on_create_menu"}

\* what a call of a file's lifecycle hook can do: raise, return None,
\* return an object that is no list, return a list built by the call
\* ("fresh", as rockbox_coverart.py's on_preferences does), or return the
\* list object the extension instance keeps ("kept")
HookOutcomes(path) ==
    CASE path \in {File_b_1_f, File_b_f} -> {"raise", "None", "fresh", "kept"}
      [] OTHER -> {"raise", "None", "object", "fresh"}

\* a menu entry (label, callback) contributed by the extension `name`
Entry(name) == [label |-> name]

(***************************************************************************)
(* ExtensionMetadata                                                       *)
(***************************************************************************)
CATEGORY_DICT ==
    [x \in {"desktop-integration", "interface", "post-download"} |->
        CASE x = "desktop-integration" -> "Desktop Integration"
          [] x = "interface" -> "Interface"
          [] OTHER -> "Post download"]

DEFAULT_CATEGORY == "Other"

\* an ExtensionMetadata that keeps a category key it does not know
ExtensionMetadata_KeepingUnknownKey(name, metadata) ==
    LET titled == IF "title" \in DOMAIN metadata THEN metadata
                  ELSE ("title" :> name) @@ metadata
        category == IF "category" \in DOMAIN metadata THEN metadata.category
                    ELSE "other"
        label == IF category \in DOMAIN CATEGORY_DICT THEN CATEGORY_DICT[category]
                 ELSE IF "category" \in DOMAIN metadata THEN category
                 ELSE DEFAULT_CATEGORY
    IN  ("category" :> label) @@ titled

\* ExtensionMetadata.__init__: the instance's __dict__
ExtensionMetadata(name, metadata) ==
    LET titled == IF "title" \in DOMAIN metadata THEN metadata
                  ELSE ("title" :> name) @@ metadata
        category == IF "category" \in DOMAIN metadata THEN metadata.category
                    ELSE "other"
        label == IF category \in DOMAIN CATEGORY_DICT THEN CATEGORY_DICT[category]
                 ELSE DEFAULT_CATEGORY
    IN  ("category" :> label) @@ titled

\* a check_ui that compares the tokens as they are written
check_ui_CaseSensitive(md, flags, target, default) ==
    IF target \notin DOMAIN md THEN default
    ELSE LET parts == Split(md[target], ",")
             uis == SelectSeq([i \in 1..Len(parts) |-> Strip(parts[i])],
                              LAMBDA x : x # << >>)
         IN  \E i \in 1..Len(uis) : uis[i] \in DOMAIN flags /\ flags[uis[i]]

\* getattr(gpodder.ui, name, False)
UiFlag(flags, name) == IF name \in DOMAIN flags THEN flags[name] ELSE FALSE

\* ExtensionMetadata.check_ui
check_ui(md, flags, target, default) ==
    IF target \notin DOMAIN md THEN default
    ELSE LET parts == Split(md[target], ",")
             uis == SelectSeq([i \in 1..Len(parts) |-> Strip(parts[i])],
                              LAMBDA x : x # << >>)
         IN  \E i \in 1..Len(uis) : UiFlag(flags, Lower(uis[i]))

available_for_current_ui(md, flags) == check_ui(md, flags, "only_for", TRUE)
mandatory_in_current_ui(md, flags) == check_ui(md, flags, "mandatory_in", FALSE)
disable_in_current_ui(md, flags) == check_ui(md, flags, "disable_in", FALSE)

(***************************************************************************)
(* ExtensionManager._find_extensions                                       *)
(***************************************************************************)
\* glob.glob(os.path.join(dir, '*.py')): the matching files, in any order
Glob(dir, ex) == Orderings({ p \in ex : Dirname(p) = dir /\ EndsWith(p, DotPy) })

\* a dict that keeps the first file of each name
RECURSIVE ExtensionsDict_FirstWins(_, _, _)
ExtensionsDict_FirstWins(fnames, ex, extensions) ==
    IF fnames = << >> THEN extensions
    ELSE LET filename == Head(fnames)
         IN  IF filename = << >> \/ filename \notin ex
             THEN ExtensionsDict_FirstWins(Tail(fnames), ex, extensions)
             ELSE ExtensionsDict_FirstWins(Tail(fnames), ex,
                      extensions @@ (DerivedName(filename) :> filename))

\* the dict built by the loop over self.filenames: later entries replace
\* earlier ones of the same name
RECURSIVE ExtensionsDict(_, _, _)
ExtensionsDict(fnames, ex, extensions) ==
    IF fnames = << >> THEN extensions
    ELSE LET filename == Head(fnames)
         IN  IF filename = << >> \/ filename \notin ex
             THEN ExtensionsDict(Tail(fnames), ex, extensions)
             ELSE ExtensionsDict(Tail(fnames), ex,
                      (DerivedName(filename) :> filename) @@ extensions)

\* sorted(extensions.items(), key=lambda i: i[1])
RECURSIVE SortedByFilename(_)
SortedByFilename(items) ==
    IF items = {} THEN << >>
    ELSE LET first == CHOOSE x \in items :
                          \A y \in items \ {x} : StrLess(x[2], y[2])
         IN  << first >> \o SortedByFilename(items \ {first})

\* _find_extensions, given self.filenames after the glob
_find_extensions(fnames, ex) ==
    LET extensions == ExtensionsDict(fnames, ex, << >>)
    IN  SortedByFilename({ << n, extensions[n] >> : n \in DOMAIN extensions })

\* the DefaultConfig a file declares ({} when it declares none)
FileDefaultConfig(path) ==
    IF path \in {File_u_f, File_b_2_g} THEN [art_name_on_device |-> "cover.jpg"]
    ELSE << >>

(***************************************************************************)
(* Exceptions.  Every exception the model raises is an instance of         *)
(* Exception, which is what the except clauses of the code catch.          *)
(***************************************************************************)
ImportError(name) == [cls |-> "ImportError", name |-> name]
RuntimeError == [cls |-> "RuntimeError"]
\* MissingDependency.__init__(message, dependency, cause)
MissingCommand(message, dependency, cause) ==
    [cls |-> "MissingCommand", message |-> message, dependency |-> dependency,
     cause |-> cause]
MissingModule(message, dependency, cause) ==
    [cls |-> "MissingModule", message |-> message, dependency |-> dependency,
     cause |-> cause]

\* the classes an exception class derives from, itself included
Bases(cls) ==
    CASE cls = "MissingCommand" -> {"MissingCommand", "MissingDependency", "Exception"}
      [] cls = "MissingModule" -> {"MissingModule", "MissingDependency", "Exception"}
      [] cls = "None" -> {}
      [] OTHER -> {cls, "Exception"}

isinstance(exception, cls) == cls \in Bases(exception.cls)

\* what ContainerHelper.require_command raises inside an extension
CommandNotFound == MissingCommand("Command not found", "ffmpeg", None)

(***************************************************************************)
(* What the outside world does during one call of set_enabled: the one     *)
(* external call that raises, if any, and what it raises.  The calls after *)
(* a raising one are not reached, so one failure point says it all.        *)
(***************************************************************************)
Ok == [at |-> "none", exc |-> None]

Fails(call, exception) == [at |-> call, exc |-> exception]

\* The ways enabling the extension of a file can fail, by what the file
\* does: an import of a module that may be missing (rockbox_coverart.py
\* imports filelock and PIL at its top), a raise at its top level, a
\* DefaultConfig the configuration rejects, a require_command in
\* __init__, a raise in on_load.  Enabling may also meet no failure.
EnableOutcomes(path) ==
    {Ok} \cup
    CASE path = File_b_1_f ->
             {Fails("exec_module", ImportError("PIL")), Fails("on_load", RuntimeError)}
      [] path = File_b_f ->
             {Fails("exec_module", ImportError("")), Fails("on_load", RuntimeError)}
      [] path = File_u_f ->
             {Fails("exec_module", ImportError("PIL")),
              Fails("gPodderExtension", CommandNotFound)}
      [] path = File_b_2_g ->
             {Fails("register_defaults", RuntimeError),
              Fails("gPodderExtension", CommandNotFound)}
      [] path = File_u__g -> {Fails("exec_module", RuntimeError)}
      [] OTHER -> {Fails("exec_module", ImportError("PIL")),
                   Fails("on_load", ImportError("PIL"))}

DisableOutcomes(path) == {Ok, Fails("on_unload", RuntimeError)}

Raises(o, call) == o.at = call

\* an entry of the log of invocations: a call made on behalf of container
\* c and the exception it raised (None when it returned)
Call(c, what, raised) == [container |-> c.name, call |-> what, raised |-> raised]

\* the log entry of a call of set_enabled that returned: its argument and
\* the container's enabled flag when it returned
Returned(c, enabled) ==
    [container |-> c.name, call |-> "set_enabled", arg |-> enabled,
     enabled |-> c.enabled]

(***************************************************************************)
(* ExtensionContainer                                                      *)
(***************************************************************************)
\* ExtensionContainer.__init__
ExtensionContainer(name, filename) ==
    [name |-> name, filename |-> filename, module |-> None, enabled |-> FALSE,
     error |-> None, default_config |-> None,
     metadata |-> ExtensionMetadata(name, FileMetadata(filename))]

\* the instance gPodderExtension(container) of the container's file
Module(c) == [cls |-> "gPodderExtension", filename |-> c.filename]

\* hasattr(self.module, attr)
hasattr(module, attr) == module # None /\ attr \in FileDefines(module.filename)

\* the outcome of one external call under o
Outcome(o, call) == IF Raises(o, call) THEN o.exc ELSE None

\* a load_extension without the early return of a container already loaded
load_extension_Reloading(c, flags, o) ==
    IF ~available_for_current_ui(c.metadata, flags)
    THEN [c |-> c, calls |-> << >>, raised |-> None]
    ELSE LET exec == << Call(c, "exec_module", Outcome(o, "exec_module")) >>
             default_config == FileDefaultConfig(c.filename)
             c1 == [c EXCEPT !.default_config = default_config]
             register ==
                 IF DOMAIN default_config = {} THEN exec
                 ELSE Append(exec, Call(c, "register_defaults",
                                        Outcome(o, "register_defaults")))
             init == Append(register, Call(c, "gPodderExtension",
                                           Outcome(o, "gPodderExtension")))
         IN  IF Raises(o, "exec_module")
             THEN [c |-> c, calls |-> exec, raised |-> o.exc]
             ELSE IF DOMAIN default_config # {} /\ Raises(o, "register_defaults")
             THEN [c |-> c1, calls |-> register, raised |-> o.exc]
             ELSE IF Raises(o, "gPodderExtension")
             THEN [c |-> c1, calls |-> init, raised |-> o.exc]
             ELSE [c |-> [c1 EXCEPT !.module = Module(c)], calls |-> init,
                   raised |-> None]

\* ExtensionContainer.load_extension: the container afterwards, the
\* external calls made and the exception raised (None when it returns)
load_extension(c, flags, o) ==
    IF c.module # None THEN [c |-> c, calls |-> << >>, raised |-> None]
    ELSE IF ~available_for_current_ui(c.metadata, flags)
    THEN [c |-> c, calls |-> << >>, raised |-> None]
    ELSE LET exec == << Call(c, "exec_module", Outcome(o, "exec_module")) >>
             default_config == FileDefaultConfig(c.filename)
             c1 == [c EXCEPT !.default_config = default_config]
             register ==
                 IF DOMAIN default_config = {} THEN exec
                 ELSE Append(exec, Call(c, "register_defaults",
                                        Outcome(o, "register_defaults")))
             init == Append(register, Call(c, "gPodderExtension",
                                           Outcome(o, "gPodderExtension")))
         IN  IF Raises(o, "exec_module")
             THEN [c |-> c, calls |-> exec, raised |-> o.exc]
             ELSE IF DOMAIN default_config # {} /\ Raises(o, "register_defaults")
             THEN [c |-> c1, calls |-> register, raised |-> o.exc]
             ELSE IF Raises(o, "gPodderExtension")
             THEN [c |-> c1, calls |-> init, raised |-> o.exc]
             ELSE [c |-> [c1 EXCEPT !.module = Module(c)], calls |-> init,
                   raised |-> None]

\* the except clause of set_enabled(True): the exception stored as error
StoredError(exception) ==
    IF isinstance(exception, "ImportError") /\ exception.name # ""
    THEN MissingCommand("Python module not found", exception.name, exception)
    ELSE exception

\* an except clause that lets the failure go on to the caller
ExceptLoad_Propagating(c, made, exception) ==
    [c |-> c, calls |-> made, raised |-> exception]

\* `except Exception as exception` of set_enabled(True): the container
\* after the handler ran, or the exception going on to the caller
ExceptLoad(c, made, exception) ==
    IF isinstance(exception, "Exception")
    THEN [c |-> [c EXCEPT !.error = StoredError(exception), !.enabled = FALSE],
          calls |-> made, raised |-> None]
    ELSE [c |-> c, calls |-> made, raised |-> exception]

\* a try block that leaves the container disabled when its extension is
\* not available for the current UI
AfterLoad_UnavailableStaysDisabled(c, o, l) ==
    IF l.raised # None THEN ExceptLoad(l.c, l.calls, l.raised)
    ELSE IF l.c.module = None
    THEN [c |-> l.c, calls |-> l.calls, raised |-> None]
    ELSE LET c1 == [l.c EXCEPT !.error = None, !.enabled = TRUE]
             on_load == Append(l.calls, Call(c, "on_load", Outcome(o, "on_load")))
         IN  IF ~hasattr(c1.module, "on_load")
             THEN [c |-> c1, calls |-> l.calls, raised |-> None]
             ELSE IF ~Raises(o, "on_load")
             THEN [c |-> c1, calls |-> on_load, raised |-> None]
             ELSE ExceptLoad(c1, on_load, o.exc)

\* a try block that ends before on_load: a failure of on_load is swallowed
\* and the container stays enabled
AfterLoad_OnLoadOutsideTry(c, o, l) ==
    IF l.raised # None THEN ExceptLoad(l.c, l.calls, l.raised)
    ELSE LET c1 == [l.c EXCEPT !.error = None, !.enabled = TRUE]
             on_load == Append(l.calls, Call(c, "on_load", Outcome(o, "on_load")))
         IN  IF ~hasattr(c1.module, "on_load")
             THEN [c |-> c1, calls |-> l.calls, raised |-> None]
             ELSE [c |-> c1, calls |-> on_load, raised |-> None]

\* a try block that does not clear the error of an earlier failure
AfterLoad_KeepingError(c, o, l) ==
    IF l.raised # None THEN ExceptLoad(l.c, l.calls, l.raised)
    ELSE LET c1 == [l.c EXCEPT !.enabled = TRUE]
             on_load == Append(l.calls, Call(c, "on_load", Outcome(o, "on_load")))
         IN  IF ~hasattr(c1.module, "on_load")
             THEN [c |-> c1, calls |-> l.calls, raised |-> None]
             ELSE IF ~Raises(o, "on_load")
             THEN [c |-> c1, calls |-> on_load, raised |-> None]
             ELSE ExceptLoad(c1, on_load, o.exc)

\* the try block of set_enabled(True) from line 259 on, and its except
\* clause: l is what self.load_extension() left (the container, the calls
\* made, the exception raised)
AfterLoad(c, o, l) ==
    IF l.raised # None THEN ExceptLoad(l.c, l.calls, l.raised)
    ELSE LET c1 == [l.c EXCEPT !.error = None, !.enabled = TRUE]
             on_load == Append(l.calls, Call(c, "on_load", Outcome(o, "on_load")))
         IN  IF ~hasattr(c1.module, "on_load")
             THEN [c |-> c1, calls |-> l.calls, raised |-> None]
             ELSE IF ~Raises(o, "on_load")
             THEN [c |-> c1, calls |-> on_load, raised |-> None]
             ELSE ExceptLoad(c1, on_load, o.exc)

\* the enable branch of set_enabled, entered when the container is disabled
Enable(c, flags, o) == AfterLoad(c, o, load_extension(c, flags, o))

\* a disable branch without the try block around on_unload: the failure
\* goes on to the caller before enabled is cleared
Disable_Propagating(c, o) ==
    LET c1 == [c EXCEPT !.enabled = FALSE]
        on_unload == << Call(c, "on_unload", Outcome(o, "on_unload")) >>
    IN  IF ~hasattr(c.module, "on_unload")
        THEN [c |-> c1, calls |-> << >>, raised |-> None]
        ELSE IF ~Raises(o, "on_unload")
        THEN [c |-> c1, calls |-> on_unload, raised |-> None]
        ELSE [c |-> c, calls |-> on_unload, raised |-> o.exc]

\* a disable branch that stores the failure of on_unload as the error
Disable_StoringError(c, o) ==
    LET c1 == [c EXCEPT !.enabled = FALSE]
        on_unload == << Call(c, "on_unload", Outcome(o, "on_unload")) >>
    IN  IF ~hasattr(c.module, "on_unload")
        THEN [c |-> c1, calls |-> << >>, raised |-> None]
        ELSE IF ~Raises(o, "on_unload")
        THEN [c |-> c1, calls |-> on_unload, raised |-> None]
        ELSE [c |-> [c1 EXCEPT !.error = o.exc], calls |-> on_unload,
              raised |-> None]

\* a disable branch that leaves the container enabled when on_unload fails
Disable_EnabledAfterFailure(c, o) ==
    LET c1 == [c EXCEPT !.enabled = FALSE]
        on_unload == << Call(c, "on_unload", Outcome(o, "on_unload")) >>
    IN  IF ~hasattr(c.module, "on_unload")
        THEN [c |-> c1, calls |-> << >>, raised |-> None]
        ELSE IF ~Raises(o, "on_unload")
        THEN [c |-> c1, calls |-> on_unload, raised |-> None]
        ELSE [c |-> c, calls |-> on_unload, raised |-> None]

\* the disable branch of set_enabled, entered when the container is enabled
Disable(c, o) ==
    LET c1 == [c EXCEPT !.enabled = FALSE]
        on_unload == << Call(c, "on_unload", Outcome(o, "on_unload")) >>
    IN  IF ~hasattr(c.module, "on_unload")
        THEN [c |-> c1, calls |-> << >>, raised |-> None]
        ELSE IF ~Raises(o, "on_unload") \/ isinstance(o.exc, "Exception")
        THEN [c |-> c1, calls |-> on_unload, raised |-> None]
        ELSE [c |-> c, calls |-> on_unload, raised |-> o.exc]

\* the end of set_enabled: r is what the branch taken left; a call that
\* returns to its caller is logged with the state it returns in
Return(r, enabled) ==
    IF r.raised # None THEN r
    ELSE [r EXCEPT !.calls = Append(r.calls, Returned(r.c, enabled))]

\* a set_enabled that does not compare the target with self.enabled
set_enabled_Unguarded(c, enabled, flags, o) ==
    Return(IF enabled THEN Enable(c, flags, o) ELSE Disable(c, o), enabled)

\* ExtensionContainer.set_enabled; o says what the call meets
set_enabled(c, enabled, flags, o) ==
    Return(IF enabled /\ ~c.enabled THEN Enable(c, flags, o)
           ELSE IF ~enabled /\ c.enabled THEN Disable(c, o)
           ELSE [c |-> c, calls |-> << >>, raised |-> None],
           enabled)

\* the outcomes a call set_enabled(enabled) can meet
Outcomes(path, enabled) ==
    IF enabled THEN EnableOutcomes(path) ELSE DisableOutcomes(path)

(***************************************************************************)
(* ExtensionManager                                                        *)
(***************************************************************************)
\* the outcome chosen for the container at position i (Ok when the
\* operation cannot reach that container's set_enabled branch)
OutcomeAt(os, i) == IF i \in DOMAIN os THEN os[i] ELSE Ok

\* a loop body that ignores the persisted enabled-set
ConstructOne_MandatoryOnly(item, enabled_extensions, flags, o, u) ==
    LET name == item[1]
        container == ExtensionContainer(name, item[2])
    IN  IF mandatory_in_current_ui(container.metadata, flags)
        THEN set_enabled(container, TRUE, flags, o)
        ELSE [c |-> container, calls |-> << >>, raised |-> None]

\* one call after another: r2 is what the second call left of what the
\* first, r1, had left
Sequenced(r1, r2) ==
    [c |-> r2.c, calls |-> r1.calls \o r2.calls, raised |-> r2.raised]

\* lines 343-345 of ExtensionManager.__init__: the container is forced off
\* when its name is in the enabled-set and its metadata disables it for the
\* current UI; r1 is what lines 340-342 left
ForceOff(r1, enabled_extensions, flags, u) ==
    IF /\ r1.raised = None
       /\ r1.c.name \in enabled_extensions
       /\ disable_in_current_ui(r1.c.metadata, flags)
    THEN Sequenced(r1, set_enabled(r1.c, FALSE, flags, u))
    ELSE r1

\* the body of the for loop of ExtensionManager.__init__ for one
\* discovered (name, filename)
ConstructOne(item, enabled_extensions, flags, o, u) ==
    LET name == item[1]
        container == ExtensionContainer(name, item[2])
    IN  ForceOff(IF \/ name \in enabled_extensions
                    \/ mandatory_in_current_ui(container.metadata, flags)
                 THEN set_enabled(container, TRUE, flags, o)
                 ELSE [c |-> container, calls |-> << >>, raised |-> None],
                 enabled_extensions, flags, u)

\* line 346, self.containers.append(container): r is what the body of the
\* loop left for one container
Appended(acc, r) ==
    [containers |-> IF r.raised = None THEN Append(acc.containers, r.c)
                    ELSE acc.containers,
     calls |-> acc.calls \o r.calls,
     raised |-> r.raised]

\* the for loop of ExtensionManager.__init__ from position i on; an
\* exception that escapes set_enabled ends the constructor
RECURSIVE ConstructLoop(_, _, _, _, _, _, _)
ConstructLoop(found, i, acc, enabled_extensions, flags, os, us) ==
    IF i > Len(found) \/ acc.raised # None THEN acc
    ELSE ConstructLoop(found, i + 1,
             Appended(acc, ConstructOne(found[i], enabled_extensions, flags,
                                        OutcomeAt(os, i), OutcomeAt(us, i))),
             enabled_extensions, flags, os, us)

\* the positions of the discovered files whose container __init__ enables
EnabledAtStart(found, enabled_extensions, flags) ==
    { i \in 1..Len(found) :
        \/ found[i][1] \in enabled_extensions
        \/ mandatory_in_current_ui(
               ExtensionMetadata(found[i][1], FileMetadata(found[i][2])), flags) }

\* the positions whose container __init__ forces off again
ForcedOffAtStart(found, enabled_extensions, flags) ==
    { i \in 1..Len(found) :
        /\ found[i][1] \in enabled_extensions
        /\ disable_in_current_ui(
               ExtensionMetadata(found[i][1], FileMetadata(found[i][2])), flags) }

\* one outcome for each of the positions S of the (name, filename) list
OutcomesOver(found, S, enabled) ==
    { os \in [S -> UNION { Outcomes(found[i][2], enabled) : i \in S }] :
        \A i \in S : os[i] \in Outcomes(found[i][2], enabled) }

\* the (name, filename) of each container
Items(cs) == [i \in 1..Len(cs) |-> << cs[i].name, cs[i].filename >>]

\* the list each extension that keeps one starts with
KeptLists(cs) ==
    [n \in { cs[i].name : i \in { j \in 1..Len(cs) :
                                     "kept" \in HookOutcomes(cs[j].filename) } }
        |-> << Entry(n) >>]

\* a constructor that does not read GPODDER_DISABLE_EXTENSIONS
DisableAll_Never(environ) == FALSE

\* os.environ.get('GPODDER_DISABLE_EXTENSIONS', '') != ''
DisableAll(environ) == environ # ""

\* the names of the containers that hold an error
Failed(cs) == { cs[i].name : i \in { j \in 1..Len(cs) : cs[j].error # None } }

\* a constructor that removes from the persisted set the name of each
\* container that did not come up, as _config_value_changed does
Construct_SelfHealing ==
    /\ phase = "new"
    /\ phase' = "running"
    /\ \E globbed \in { b \o u : b \in Glob(BuiltinsDir, existing),
                                 u \in Glob(UserDir, existing) } :
         LET fnames == IF ~DisableAll(environ_disable) /\ environ_filenames = << >>
                       THEN globbed ELSE environ_filenames
             found == IF DisableAll(environ_disable) THEN << >>
                      ELSE _find_extensions(fnames, existing)
         IN  /\ filenames' = fnames
             /\ \E os \in OutcomesOver(found, EnabledAtStart(found, config_enabled, ui), TRUE),
                   us \in OutcomesOver(found, ForcedOffAtStart(found, config_enabled, ui), FALSE) :
                  \E r \in { ConstructLoop(found, 1,
                                 [containers |-> << >>, calls |-> << >>, raised |-> None],
                                 config_enabled, ui, os, us) } :
                      /\ containers' = r.containers
                      /\ calls' = r.calls
                      /\ propagated' = r.raised
                      /\ retained' = KeptLists(r.containers)
                      /\ config_enabled' = config_enabled \ Failed(r.containers)
    /\ stack' = << >>
    /\ op' = [name |-> "__init__"]
    /\ UNCHANGED << args, environ_filenames, environ_disable, existing, ui,
                    result, returns >>

\* ExtensionManager.__init__
Construct ==
    /\ phase = "new"
    /\ phase' = "running"
    /\ \E globbed \in { b \o u : b \in Glob(BuiltinsDir, existing),
                                 u \in Glob(UserDir, existing) } :
         LET fnames == IF ~DisableAll(environ_disable) /\ environ_filenames = << >>
                       THEN globbed ELSE environ_filenames
             found == IF DisableAll(environ_disable) THEN << >>
                      ELSE _find_extensions(fnames, existing)
         IN  /\ filenames' = fnames
             /\ \E os \in OutcomesOver(found, EnabledAtStart(found, config_enabled, ui), TRUE),
                   us \in OutcomesOver(found, ForcedOffAtStart(found, config_enabled, ui), FALSE) :
                  \E r \in { ConstructLoop(found, 1,
                                 [containers |-> << >>, calls |-> << >>, raised |-> None],
                                 config_enabled, ui, os, us) } :
                      /\ containers' = r.containers
                      /\ calls' = r.calls
                      /\ propagated' = r.raised
                      /\ retained' = KeptLists(r.containers)
    /\ stack' = << >>
    /\ op' = [name |-> "__init__"]
    /\ UNCHANGED << args, environ_filenames, environ_disable, existing, ui,
                    config_enabled, result, returns >>

\* the i-th container after its set_enabled call left r
Replaced(acc, i, r) ==
    [containers |-> [acc.containers EXCEPT ![i] = r.c],
     calls |-> acc.calls \o r.calls, raised |-> r.raised]

\* ExtensionManager.shutdown from position i on
RECURSIVE ShutdownLoop(_, _, _, _)
ShutdownLoop(cs, i, acc, us) ==
    IF i > Len(cs) \/ acc.raised # None THEN acc
    ELSE ShutdownLoop(cs, i + 1,
             Replaced(acc, i, set_enabled(cs[i], FALSE, ui, OutcomeAt(us, i))), us)

\* ExtensionManager.shutdown
Shutdown ==
    /\ phase = "running"
    /\ stack = << >>
    /\ \E us \in OutcomesOver(Items(containers),
                               { i \in 1..Len(containers) : containers[i].enabled },
                               FALSE) :
         \E r \in { ShutdownLoop(containers, 1,
                        [containers |-> containers, calls |-> << >>, raised |-> None],
                        us) } :
             /\ containers' = r.containers
             /\ calls' = r.calls
             /\ propagated' = r.raised
    /\ op' = [name |-> "shutdown"]
    /\ UNCHANGED << phase, args, environ_filenames, environ_disable, existing,
                    ui, config_enabled, filenames, stack, retained, result, returns >>

\* the host calls set_enabled on a container it got from the manager
SetEnabledCall ==
    /\ phase = "running"
    /\ stack = << >>
    /\ \E i \in 1..Len(containers), enabled \in BOOLEAN :
       \E o \in Outcomes(containers[i].filename, enabled) :
         \E r \in { set_enabled(containers[i], enabled, ui, o) } :
             /\ containers' = [containers EXCEPT ![i] = r.c]
             /\ calls' = r.calls
             /\ propagated' = r.raised
             /\ op' = [name |-> "set_enabled", container |-> containers[i].name,
                       enabled |-> enabled]
    /\ UNCHANGED << phase, args, environ_filenames, environ_disable, existing,
                    ui, config_enabled, filenames, stack, retained, result, returns >>

\* a loop that makes no exception for UI-mandatory containers
NeedsCall_NoExemption(c, new_value, flags) ==
    (c.name \in new_value) # c.enabled

\* whether the loop of _config_value_changed reaches set_enabled for c
NeedsCall(c, new_value, flags) ==
    LET new_enabled == c.name \in new_value
    IN  /\ new_enabled # c.enabled
        /\ ~(~new_enabled /\ mandatory_in_current_ui(c.metadata, flags))

\* the first position from frame.i on at which the loop of
\* _config_value_changed calls set_enabled, 0 when it runs to its end
NextCall(frame, cs, flags) ==
    LET S == { j \in frame.i..Len(cs) : NeedsCall(cs[j], frame.new_value, flags) }
    IN  IF S = {} THEN 0 ELSE CHOOSE j \in S : \A k \in S : j <= k

\* run the innermost activation up to its next set_enabled call; an
\* activation whose loop ends returns to the activation that wrote the set
RECURSIVE Resume(_, _, _)
Resume(stk, cs, flags) ==
    IF stk = << >> THEN stk
    ELSE LET top == stk[Len(stk)]
             j == NextCall(top, cs, flags)
         IN  IF j = 0 THEN Resume(SubSeq(stk, 1, Len(stk) - 1), cs, flags)
             ELSE [stk EXCEPT ![Len(stk)].i = j]

\* core.config.extensions.enabled = value: the configuration layer stores
\* the value and calls the observers when it differs from the old one;
\* the manager's observer starts _config_value_changed('extensions.enabled')
ObserverCalled(stk, old_value, new_value) ==
    IF new_value = old_value THEN stk
    ELSE Append(stk, [new_value |-> new_value, i |-> 1])

\* the extension names the host can put in the enabled-set: those of the
\* extension files on disk
KnownNames(ex) == { DerivedName(p) : p \in ex }

\* the host (the preferences dialog) writes the enabled-set
ConfigWrite ==
    /\ phase = "running"
    /\ stack = << >>
    /\ \E new_value \in SUBSET KnownNames(existing) :
         /\ config_enabled' = new_value
         /\ stack' = Resume(ObserverCalled(stack, config_enabled, new_value),
                            containers, ui)
         /\ op' = [name |-> "config.extensions.enabled", new_value |-> new_value]
    /\ calls' = << >>
    /\ propagated' = None
    /\ UNCHANGED << phase, args, environ_filenames, environ_disable, existing,
                    ui, filenames, containers, retained, result, returns >>

\* a reaction that leaves the persisted set as written
AfterSetEnabled_NoRevert(stk, cs, enabled_set, flags, new_enabled, r) ==
    LET top == stk[Len(stk)]
        cs1 == [cs EXCEPT ![top.i] = r.c]
        stk1 == [stk EXCEPT ![Len(stk)].i = top.i + 1]
    IN  IF r.raised # None
        THEN [containers |-> cs1, stack |-> << >>, enabled |-> enabled_set,
              calls |-> r.calls, raised |-> r.raised]
        ELSE [containers |-> cs1, stack |-> Resume(stk1, cs1, flags),
              enabled |-> enabled_set, calls |-> r.calls, raised |-> None]

\* lines 365-372 of _config_value_changed: r is what the set_enabled call
\* of line 364 left; a container that did not come up has its name removed
\* from the persisted set, which calls the observer again
AfterSetEnabled(stk, cs, enabled_set, flags, new_enabled, r) ==
    LET top == stk[Len(stk)]
        cs1 == [cs EXCEPT ![top.i] = r.c]
        stk1 == [stk EXCEPT ![Len(stk)].i = top.i + 1]
        reverted == { x \in enabled_set : x # r.c.name }
    IN  IF r.raised # None
        THEN [containers |-> cs1, stack |-> << >>, enabled |-> enabled_set,
              calls |-> r.calls, raised |-> r.raised]
        ELSE IF new_enabled /\ ~r.c.enabled
        THEN [containers |-> cs1,
              stack |-> Resume(ObserverCalled(stk1, enabled_set, reverted),
                               cs1, flags),
              enabled |-> reverted, calls |-> r.calls, raised |-> None]
        ELSE [containers |-> cs1, stack |-> Resume(stk1, cs1, flags),
              enabled |-> enabled_set, calls |-> r.calls, raised |-> None]

\* lines 357-372 of _config_value_changed for the container the innermost
\* activation has reached: the set_enabled call, and what follows it
ReactTo(stk, cs, enabled_set, flags, o) ==
    LET top == stk[Len(stk)]
        new_enabled == cs[top.i].name \in top.new_value
    IN  AfterSetEnabled(stk, cs, enabled_set, flags, new_enabled,
                        set_enabled(cs[top.i], new_enabled, flags, o))

\* ExtensionManager._config_value_changed goes on to its next set_enabled
React ==
    /\ phase = "running"
    /\ stack # << >>
    /\ \E o \in Outcomes(containers[stack[Len(stack)].i].filename,
                           containers[stack[Len(stack)].i].name
                               \in stack[Len(stack)].new_value) :
         \E r \in { ReactTo(stack, containers, config_enabled, ui, o) } :
             /\ containers' = r.containers
             /\ stack' = r.stack
             /\ config_enabled' = r.enabled
             /\ calls' = calls \o r.calls
             /\ propagated' = r.raised
    /\ UNCHANGED << phase, op, args, environ_filenames, environ_disable, existing,
                    ui, filenames, retained, result, returns >>


(***************************************************************************)
(* call_extensions: the handler every lifecycle hook of the manager is     *)
(* decorated into.  Python values are records with their class; a list is  *)
(* an object of the heap, named by its id, since result.extend() changes   *)
(* the list object the first hook returned.                                *)
(***************************************************************************)
HookNames == {"on_create_menu", "on_preferences"}

\* the manager, as the receiver of a logged call
ExtensionManager == [name |-> << >>]

Object(name) == [cls |-> "object", of |-> name]
ListRef(id) == [cls |-> "list", id |-> id]

\* the value a reference denotes at this moment
Snapshot(v, heap) ==
    IF v.cls = "list" THEN [cls |-> "list", id |-> v.id, items |-> heap[v.id]]
    ELSE v

\* the heap before a dispatch: the lists the extension instances keep
KeptHeap(kept) == [id \in { << n, "kept" >> : n \in DOMAIN kept } |-> kept[id[1]]]

\* callback(*args, **kwargs) of container c
Callback(c, h, heap) ==
    CASE h = "raise" -> [value |-> None, heap |-> heap, raised |-> RuntimeError]
      [] h = "None" -> [value |-> None, heap |-> heap, raised |-> None]
      [] h = "object" -> [value |-> Object(c.name), heap |-> heap, raised |-> None]
      [] h = "fresh" ->
             [value |-> ListRef(<< c.name, "fresh" >>),
              heap |-> (<< c.name, "fresh" >> :> << Entry(c.name) >>) @@ heap,
              raised |-> None]
      [] OTHER -> [value |-> ListRef(<< c.name, "kept" >>), heap |-> heap,
                   raised |-> None]

\* an aggregation in which each returned value replaces the aggregate
Aggregated_Replacing(acc_result, cb_res, heap) ==
    IF cb_res # None
    THEN [result |-> cb_res, heap |-> heap]
    ELSE [result |-> acc_result, heap |-> heap]

\* an aggregation in which a list, once accumulated, is kept when a hook
\* returns a value that is no list
Aggregated_KeepingList(acc_result, cb_res, heap) ==
    IF acc_result.cls = "list" /\ cb_res.cls = "list"
    THEN [result |-> acc_result,
          heap |-> [heap EXCEPT ![acc_result.id] = heap[acc_result.id] \o heap[cb_res.id]]]
    ELSE IF cb_res # None /\ acc_result.cls # "list"
    THEN [result |-> cb_res, heap |-> heap]
    ELSE [result |-> acc_result, heap |-> heap]

\* lines 77-80: the aggregation of one hook's return value
Aggregated(acc_result, cb_res, heap) ==
    IF acc_result.cls = "list" /\ cb_res.cls = "list"
    THEN [result |-> acc_result,
          heap |-> [heap EXCEPT ![acc_result.id] = heap[acc_result.id] \o heap[cb_res.id]]]
    ELSE IF cb_res # None
    THEN [result |-> cb_res, heap |-> heap]
    ELSE [result |-> acc_result, heap |-> heap]

\* a loop body without the except clause: a raising hook ends the dispatch
HandleOne_Uncaught(c, method_name, h, acc) ==
    IF ~c.enabled \/ c.module = None THEN acc
    ELSE IF ~hasattr(c.module, method_name) THEN acc
    ELSE LET r == Callback(c, h, acc.heap)
             called == Append(acc.calls, Call(c, method_name, r.raised))
         IN  IF r.raised # None
             THEN [acc EXCEPT !.calls = called, !.raised = r.raised]
             ELSE LET a == Aggregated(acc.result, r.value, r.heap)
                  IN  [result |-> a.result, heap |-> a.heap, calls |-> called,
                       returns |-> Append(acc.returns,
                                      [container |-> c.name,
                                       value |-> Snapshot(r.value, r.heap)]),
                       raised |-> None]

\* a loop body that does not look at container.enabled
HandleOne_IgnoringEnabled(c, method_name, h, acc) ==
    IF c.module = None THEN acc
    ELSE IF ~hasattr(c.module, method_name) THEN acc
    ELSE LET r == Callback(c, h, acc.heap)
             called == Append(acc.calls, Call(c, method_name, r.raised))
         IN  IF r.raised # None
             THEN IF isinstance(r.raised, "Exception")
                  THEN [acc EXCEPT !.calls = called]
                  ELSE [acc EXCEPT !.calls = called, !.raised = r.raised]
             ELSE LET a == Aggregated(acc.result, r.value, r.heap)
                  IN  [result |-> a.result, heap |-> a.heap, calls |-> called,
                       returns |-> Append(acc.returns,
                                      [container |-> c.name,
                                       value |-> Snapshot(r.value, r.heap)]),
                       raised |-> None]

\* the body of the handler's loop for one container
HandleOne(c, method_name, h, acc) ==
    IF ~c.enabled \/ c.module = None THEN acc
    ELSE IF ~hasattr(c.module, method_name) THEN acc
    ELSE LET r == Callback(c, h, acc.heap)
             called == Append(acc.calls, Call(c, method_name, r.raised))
         IN  IF r.raised # None
             THEN IF isinstance(r.raised, "Exception")
                  THEN [acc EXCEPT !.calls = called]
                  ELSE [acc EXCEPT !.calls = called, !.raised = r.raised]
             ELSE LET a == Aggregated(acc.result, r.value, r.heap)
                  IN  [result |-> a.result, heap |-> a.heap, calls |-> called,
                       returns |-> Append(acc.returns,
                                      [container |-> c.name,
                                       value |-> Snapshot(r.value, r.heap)]),
                       raised |-> None]

\* the handler's loop from position i on
RECURSIVE HandlerLoop(_, _, _, _, _)
HandlerLoop(cs, method_name, hs, i, acc) ==
    IF i > Len(cs) \/ acc.raised # None THEN acc
    ELSE HandlerLoop(cs, method_name, hs, i + 1,
                     HandleOne(cs[i], method_name, hs[i], acc))

\* a handler that runs the manager's own body of the hook before the loop
handler_CoreBodyFirst(cs, method_name, hs, kept) ==
    LET acc == HandlerLoop(cs, method_name, hs, 1,
                   [result |-> None, heap |-> KeptHeap(kept), calls |-> << >>,
                    returns |-> << >>, raised |-> None])
    IN  [result |-> IF acc.raised = None THEN Snapshot(acc.result, acc.heap) ELSE None,
         kept |-> [n \in DOMAIN kept |-> acc.heap[<< n, "kept" >>]],
         calls |-> << Call(ExtensionManager, method_name, None) >> \o acc.calls,
         returns |-> acc.returns,
         raised |-> acc.raised]

\* handler(self, *args, **kwargs): the loop, then the manager's own body of
\* the hook (func), which holds a docstring only, then the return
handler(cs, method_name, hs, kept) ==
    LET acc == HandlerLoop(cs, method_name, hs, 1,
                   [result |-> None, heap |-> KeptHeap(kept), calls |-> << >>,
                    returns |-> << >>, raised |-> None])
    IN  [result |-> IF acc.raised = None THEN Snapshot(acc.result, acc.heap) ELSE None,
         kept |-> [n \in DOMAIN kept |-> acc.heap[<< n, "kept" >>]],
         calls |-> IF acc.raised = None
                   THEN Append(acc.calls, Call(ExtensionManager, method_name, None))
                   ELSE acc.calls,
         returns |-> acc.returns,
         raised |-> acc.raised]

\* the positions whose hook a dispatch of method_name calls
Hooked(cs, method_name) ==
    { i \in 1..Len(cs) : /\ cs[i].enabled
                         /\ cs[i].module # None
                         /\ hasattr(cs[i].module, method_name) }

\* one outcome for each hook called (and "None" for the positions skipped)
HookOutcomesOver(cs, method_name) ==
    { hs \in [1..Len(cs) -> {"raise", "None", "object", "fresh", "kept"}] :
        \A i \in 1..Len(cs) :
            IF i \in Hooked(cs, method_name)
            THEN hs[i] \in HookOutcomes(cs[i].filename)
            ELSE hs[i] = "None" }

\* the containers with those whose hook raised disabled
WithoutRaising(cs, log) ==
    [i \in 1..Len(cs) |->
        IF \E k \in 1..Len(log) :
               log[k].container = cs[i].name /\ log[k].raised # None
        THEN [cs[i] EXCEPT !.enabled = FALSE]
        ELSE cs[i]]

\* a dispatch that disables the extension whose hook raised
Dispatch_DisablingRaising ==
    /\ phase = "running"
    /\ stack = << >>
    /\ \E method_name \in HookNames :
       \E hs \in HookOutcomesOver(containers, method_name) :
         \E r \in { handler(containers, method_name, hs, retained) } :
             /\ \A n \in DOMAIN r.kept : Len(r.kept[n]) <= MaxListLen
             /\ retained' = r.kept
             /\ result' = r.result
             /\ returns' = r.returns
             /\ calls' = r.calls
             /\ propagated' = r.raised
             /\ op' = [name |-> method_name]
             /\ containers' = WithoutRaising(containers, r.calls)
    /\ UNCHANGED << phase, args, environ_filenames, environ_disable, existing,
                    ui, config_enabled, filenames, stack >>

\* the host calls a lifecycle hook of the manager
Dispatch ==
    /\ phase = "running"
    /\ stack = << >>
    /\ \E method_name \in HookNames :
       \E hs \in HookOutcomesOver(containers, method_name) :
         \E r \in { handler(containers, method_name, hs, retained) } :
             /\ \A n \in DOMAIN r.kept : Len(r.kept[n]) <= MaxListLen
             /\ retained' = r.kept
             /\ result' = r.result
             /\ returns' = r.returns
             /\ calls' = r.calls
             /\ propagated' = r.raised
             /\ op' = [name |-> method_name]
    /\ UNCHANGED << phase, args, environ_filenames, environ_disable, existing,
                    ui, config_enabled, filenames, containers, stack >>

\* a get_extensions that lists the enabled containers
get_extensions_EnabledOnly(cs, flags) ==
    SelectSeq(cs, LAMBDA c : c.enabled)

\* ExtensionManager.get_extensions
get_extensions(cs, flags) ==
    SelectSeq(cs, LAMBDA c : /\ available_for_current_ui(c.metadata, flags)
                             /\ ~mandatory_in_current_ui(c.metadata, flags)
                             /\ ~disable_in_current_ui(c.metadata, flags))

\* the host asks the manager for the extensions to list
GetExtensions ==
    /\ phase = "running"
    /\ stack = << >>
    /\ result' = [cls |-> "list", id |-> << "get_extensions" >>,
                  items |-> get_extensions(containers, ui)]
    /\ op' = [name |-> "get_extensions"]
    /\ calls' = << >>
    /\ returns' = << >>
    /\ propagated' = None
    /\ UNCHANGED << phase, args, environ_filenames, environ_disable, existing,
                    ui, config_enabled, filenames, containers, stack, retained >>

(***************************************************************************)
(* The lifecycle specification: a manager is constructed over the files    *)
(* found on disk, then the host writes the enabled-set, calls set_enabled  *)
(* and shuts down, in any order.  The disk holds up to MaxFiles files of   *)
(* the fixture; u/f.py, the third file of the name f, is left to the       *)
(* specification of the discovery.                                         *)
(***************************************************************************)
UiChoices == { (gtk :> TRUE) @@ (cli :> FALSE), (gtk :> FALSE) @@ (cli :> TRUE) }

Init ==
    /\ phase = "new"
    /\ op = [name |-> "none"]
    /\ environ_filenames = << >>
    /\ environ_disable \in {"", "1"}
    /\ existing \in { S \in SUBSET (Files \ {File_u_f}) : Cardinality(S) <= MaxFiles }
    /\ ui \in UiChoices
    /\ config_enabled \in SUBSET KnownNames(existing)
    /\ filenames = << >>
    /\ containers = << >>
    /\ stack = << >>
    /\ calls = << >>
    /\ propagated = None
    /\ retained = << >>
    /\ result = None
    /\ returns = << >>
    /\ args = NoCall

Next ==
    \/ Construct
    \/ ConfigWrite
    \/ React
    \/ SetEnabledCall
    \/ Shutdown

Spec == Init /\ [][Next]_vars

(***************************************************************************)
(* The dispatch specification: a manager constructed over three extension  *)
(* files of different names, whose lifecycle hooks the host then calls.    *)
(***************************************************************************)
InitDispatch ==
    /\ phase = "new"
    /\ op = [name |-> "none"]
    /\ environ_filenames = << >>
    /\ environ_disable = ""
    /\ existing \in { S \in SUBSET Files :
                        Cardinality(S) = 3 /\ Cardinality(KnownNames(S)) = 3 }
    /\ ui \in UiChoices
    /\ config_enabled \in SUBSET KnownNames(existing)
    /\ filenames = << >>
    /\ containers = << >>
    /\ stack = << >>
    /\ calls = << >>
    /\ propagated = None
    /\ retained = << >>
    /\ result = None
    /\ returns = << >>
    /\ args = NoCall

NextDispatch ==
    \/ Construct
    \/ Dispatch
    \/ GetExtensions

SpecDispatch == InitDispatch /\ [][NextDispatch]_vars

(***************************************************************************)
(* The host specification: the host writes the enabled-set and calls the   *)
(* lifecycle hooks, in any order, on a manager constructed with or without *)
(* GPODDER_DISABLE_EXTENSIONS over up to MaxHosted files.                  *)
(***************************************************************************)
InitHost ==
    /\ phase = "new"
    /\ op = [name |-> "none"]
    /\ environ_filenames = << >>
    /\ environ_disable \in {"", "1"}
    /\ existing \in { S \in SUBSET Files : Cardinality(S) <= MaxHosted }
    /\ ui \in UiChoices
    /\ config_enabled \in SUBSET KnownNames(existing)
    /\ filenames = << >>
    /\ containers = << >>
    /\ stack = << >>
    /\ calls = << >>
    /\ propagated = None
    /\ retained = << >>
    /\ result = None
    /\ returns = << >>
    /\ args = NoCall

NextHost ==
    \/ Construct
    \/ ConfigWrite
    \/ React
    \/ Dispatch

SpecHost == InitHost /\ [][NextHost]_vars

(***************************************************************************)
(* The discovery specification: a manager constructed over any list of     *)
(* candidate files given in GPODDER_EXTENSIONS (or, when that is empty,    *)
(* over the two extension directories), some of them missing on disk.      *)
(***************************************************************************)
InitFind ==
    /\ phase = "new"
    /\ op = [name |-> "none"]
    /\ environ_filenames \in SeqsUpTo(Files, MaxScan)
    /\ environ_disable = ""
    /\ existing \in { Files, Files \ {File_b_1_f}, Files \ {File_u_f} }
    /\ ui \in UiChoices
    /\ config_enabled = {}
    /\ filenames = << >>
    /\ containers = << >>
    /\ stack = << >>
    /\ calls = << >>
    /\ propagated = None
    /\ retained = << >>
    /\ result = None
    /\ returns = << >>
    /\ args = NoCall

NextFind ==
    \/ Construct
    \/ Shutdown

SpecFind == InitFind /\ [][NextFind]_vars

(***************************************************************************)
(* The metadata specification: ExtensionMetadata is constructed from a     *)
(* metadata mapping, and check_ui is called on one, for every mapping and  *)
(* every setting of the flags of gpodder.ui drawn from the sets below.     *)
(***************************************************************************)
\* what the value of a UI field is made of
Pieces == { gtk, cli, << "," >>, << " " >>, << "x" >> }

RECURSIVE Joined(_)
Joined(ps) == IF ps = << >> THEN << >> ELSE Head(ps) \o Joined(Tail(ps))

\* the same text with its g and c in capitals
Capitals(text) ==
    [i \in 1..Len(text) |->
        CASE text[i] = "g" -> "G" [] text[i] = "c" -> "C" [] OTHER -> text[i]]

Texts ==
    UNION { { Joined(ps), Capitals(Joined(ps)) } : ps \in SeqsUpTo(Pieces, MaxPieces) }

Targets == {"only_for", "mandatory_in", "disable_in"}

\* a call check_ui(target, default) on the metadata of a mapping that
\* declares the field, or does not
CheckUiArgs ==
    { [call |-> "check_ui", name |-> Name_f, metadata |-> md,
       target |-> target, default |-> default] :
        md \in { << >> } \cup { "only_for" :> text : text \in Texts },
        target \in Targets, default \in BOOLEAN }

CategoryKeys == DOMAIN CATEGORY_DICT \cup {"other", "x", "Interface"}

\* a call ExtensionMetadata(container, metadata)
MetadataArgs ==
    { [call |-> "ExtensionMetadata", name |-> name,
       metadata |-> title @@ category @@ rest] :
        name \in {Name_f, Name_1h},
        title \in { << >>, [title |-> << "F", "1" >>], [title |-> Name_1h] },
        category \in { << >> } \cup { [category |-> key] : key \in CategoryKeys },
        rest \in { << >>, [only_for |-> gtk_cli], [authors |-> << "x" >>] } }

InitMeta ==
    /\ phase = "new"
    /\ op = [name |-> "none"]
    /\ environ_filenames = << >>
    /\ environ_disable = ""
    /\ existing = {}
    /\ ui \in [{gtk, cli} -> BOOLEAN]
    /\ config_enabled = {}
    /\ filenames = << >>
    /\ containers = << >>
    /\ stack = << >>
    /\ calls = << >>
    /\ propagated = None
    /\ retained = << >>
    /\ result = None
    /\ returns = << >>
    /\ args \in CheckUiArgs \cup MetadataArgs

\* ExtensionMetadata(container, metadata)
NewMetadata ==
    /\ op.name = "none"
    /\ args.call = "ExtensionMetadata"
    /\ result' = [cls |-> "ExtensionMetadata",
                  dict |-> ExtensionMetadata(args.name, args.metadata)]
    /\ op' = [name |-> "ExtensionMetadata"]
    /\ UNCHANGED << phase, args, environ_filenames, environ_disable, existing, ui,
                    config_enabled, filenames, containers, stack, calls,
                    propagated, retained, returns >>

\* ExtensionMetadata(container, metadata).check_ui(target, default)
CheckUi ==
    /\ op.name = "none"
    /\ args.call = "check_ui"
    /\ result' = [cls |-> "bool",
                  value |-> check_ui(ExtensionMetadata(args.name, args.metadata),
                                     ui, args.target, args.default)]
    /\ op' = [name |-> "check_ui"]
    /\ UNCHANGED << phase, args, environ_filenames, environ_disable, existing, ui,
                    config_enabled, filenames, containers, stack, calls,
                    propagated, retained, returns >>

NextMeta ==
    \/ NewMetadata
    \/ CheckUi

SpecMeta == InitMeta /\ [][NextMeta]_vars

(***************************************************************************)
(* Helpers of the properties.                                              *)
(***************************************************************************)
\* the container of the given name
ContainerNamed(cs, n) == cs[CHOOSE i \in 1..Len(cs) : cs[i].name = n]

\* the log entries a step adds: _config_value_changed goes on with the log
\* of the write it reacts to, every other operation starts a new log
NewCalls ==
    IF stack # << >> THEN SubSeq(calls', Len(calls) + 1, Len(calls')) ELSE calls'

\* a call load_extension makes
IsLoadCall(e) == e.call \in {"exec_module", "register_defaults", "gPodderExtension"}

\* the hook calls of a dispatch log, without the manager's own body
HookCalls(log) == SelectSeq(log, LAMBDA e : e.container # ExtensionManager.name)

\* the names of the containers in a sequence of log entries or containers
NamesOf(seq) == [k \in 1..Len(seq) |-> seq[k].container]

\* the name the documentation gives each file of the model: its file name
\* without ".py" and without a leading digits-and-underscore prefix
DocumentedName(path) ==
    CASE path \in {File_b_1_f, File_b_f, File_u_f} -> Name_f
      [] path \in {File_b_2_g, File_u__g} -> Name_g
      [] OTHER -> Name_1h

\* the positions of the scan list holding an existing file of that name
ScannedAs(n) ==
    { k \in 1..Len(filenames) :
        filenames[k] \in existing /\ DocumentedName(filenames[k]) = n }

Last(S) == CHOOSE k \in S : \A j \in S : j <= k

(***************************************************************************)
(* C9: discovery yields one container per derived name (the file name      *)
(* without extension and ordering prefix), so that container names are     *)
(* pairwise distinct, and of several existing files of one name the one    *)
(* last in scan order (the user directory is scanned after the built-in    *)
(* one) gives the container its filename.                                  *)
(***************************************************************************)
C9_OneContainerPerNameLastWins ==
    /\ \A i, j \in 1..Len(containers) :
           i # j => containers[i].name # containers[j].name
    /\ phase = "running" =>
        /\ { containers[i].name : i \in 1..Len(containers) }
               = { DocumentedName(filenames[k]) :
                       k \in { j \in 1..Len(filenames) : filenames[j] \in existing } }
        /\ \A i \in 1..Len(containers) :
               containers[i].filename = filenames[Last(ScannedAs(containers[i].name))]
        /\ environ_filenames = << >> =>
               \A k, l \in 1..Len(filenames) :
                   (Dirname(filenames[k]) = UserDir
                        /\ Dirname(filenames[l]) = BuiltinsDir) => l < k

\* a user-directory file scanned before two built-in files of its name, the
\* last of which is the container's
C9_Witness ==
    /\ phase = "running"
    /\ \E i \in 1..Len(containers), k, l, m \in 1..Len(filenames) :
        /\ k < l /\ l < m
        /\ filenames[k] = File_u_f /\ filenames[l] = File_b_f
        /\ filenames[m] = File_b_1_f
        /\ {File_u_f, File_b_f, File_b_1_f} \subseteq existing
        /\ containers[i].name = Name_f
        /\ containers[i].filename = File_b_1_f

(***************************************************************************)
(* C10: right after the construction of the manager (kill-switch unset),   *)
(* a discovered container that is available for the current UI and whose   *)
(* load and on_load did not fail is enabled if and only if (its name is in *)
(* the persisted enabled-set or it is UI-mandatory) and not (its name is   *)
(* in the set and it is disabled for the current UI); a container that is  *)
(* neither in the set nor mandatory is never loaded.                       *)
(***************************************************************************)
C10_ConstructionPolicy ==
    (op.name = "__init__" /\ environ_disable = "") =>
        \A i \in 1..Len(containers) :
            LET c == containers[i]
                in_set == c.name \in config_enabled
                mandatory == mandatory_in_current_ui(c.metadata, ui)
                disabled == disable_in_current_ui(c.metadata, ui)
                failed == \E k \in 1..Len(calls) :
                              /\ calls[k].container = c.name
                              /\ IsLoadCall(calls[k]) \/ calls[k].call = "on_load"
                              /\ calls[k].raised # None
            IN  /\ (available_for_current_ui(c.metadata, ui) /\ ~failed) =>
                       (c.enabled <=> ((in_set \/ mandatory) /\ ~(in_set /\ disabled)))
                /\ (~in_set /\ ~mandatory) =>
                       /\ c.module = None
                       /\ ~c.enabled
                       /\ \A k \in 1..Len(calls) : calls[k].container # c.name

\* a container of the enabled-set that was loaded and then forced off, and
\* one that is in the set and stayed on
C10_Witness ==
    /\ op.name = "__init__"
    /\ \E i, j \in 1..Len(containers) :
        /\ containers[i].name \in config_enabled
        /\ disable_in_current_ui(containers[i].metadata, ui)
        /\ containers[i].module # None
        /\ ~containers[i].enabled
        /\ containers[j].name \in config_enabled
        /\ containers[j].enabled
        /\ containers[j].module # None

(***************************************************************************)
(* C3: when _config_value_changed tried to enable a container and the      *)
(* container was still disabled after set_enabled(True), then once the     *)
(* reaction to the write has finished the container's name is not in the   *)
(* persisted enabled-set, and the other names of the written set are kept. *)
(***************************************************************************)
FailedEnables(log) ==
    { log[k].container : k \in { j \in 1..Len(log) :
                                   /\ log[j].call = "set_enabled"
                                   /\ log[j].arg
                                   /\ ~log[j].enabled } }

C3_FailedEnableLeavesSet ==
    (op.name = "config.extensions.enabled" /\ stack = << >>) =>
        config_enabled = op.new_value \ FailedEnables(calls)

\* a name of the written set whose container did not come up, beside a name
\* that was kept
C3_Witness ==
    /\ op.name = "config.extensions.enabled"
    /\ stack = << >>
    /\ \E n \in FailedEnables(calls) :
        /\ n \in op.new_value
        /\ n \notin config_enabled
        /\ \E m \in config_enabled : m # n

(***************************************************************************)
(* C8: the reaction to a write of the enabled-set leaves a container that  *)
(* is UI-mandatory and enabled alone, whether the written set holds its    *)
(* name or not: it stays enabled, none of its hooks is called and no error *)
(* is recorded.                                                            *)
(***************************************************************************)
C8_MandatoryStaysEnabled ==
    [][ op'.name = "config.extensions.enabled" =>
          \A i \in 1..Len(containers) :
              (containers[i].enabled
                   /\ mandatory_in_current_ui(containers[i].metadata, ui)) =>
                  /\ containers'[i] = containers[i]
                  /\ \A k \in 1..Len(NewCalls) :
                         NewCalls[k].container # containers[i].name ]_vars

\* a reaction that changed another container and is over, with a mandatory
\* container enabled whose name the written set omits
C8_Witness ==
    /\ op.name = "config.extensions.enabled"
    /\ stack = << >>
    /\ calls # << >>
    /\ \E i \in 1..Len(containers) :
        /\ containers[i].enabled
        /\ containers[i].module # None
        /\ mandatory_in_current_ui(containers[i].metadata, ui)
        /\ containers[i].name \notin op.new_value

(***************************************************************************)
(* C4: set_enabled(True) on a disabled container whose extension is not    *)
(* available for the current UI (only_for matches no active UI flag).      *)
(***************************************************************************)
\* the host called set_enabled(True) on a disabled container that is not
\* available for the current UI
C4_Case(i) ==
    /\ op'.name = "set_enabled"
    /\ op'.enabled
    /\ op'.container = containers[i].name
    /\ ~containers[i].enabled
    /\ ~available_for_current_ui(containers[i].metadata, ui)

\* C4 as claimed: the call leaves module null, enabled false and no error
C4_Original ==
    [][ \A i \in 1..Len(containers) :
          C4_Case(i) => /\ containers'[i].module = None
                        /\ ~containers'[i].enabled
                        /\ containers'[i].error = None ]_vars

\* C4 as amended: the call leaves module null and records no error, and it
\* marks the container enabled; nothing of the extension is called
C4_UnavailableIsEnabledUnloaded ==
    [][ \A i \in 1..Len(containers) :
          C4_Case(i) => /\ containers'[i].module = None
                        /\ containers'[i].enabled
                        /\ containers'[i].error = None
                        /\ propagated' = None
                        /\ calls' = << Returned(containers'[i], TRUE) >> ]_vars

C4_Witness ==
    /\ op.name = "set_enabled"
    /\ op.enabled
    /\ \E i \in 1..Len(containers) :
        /\ op.container = containers[i].name
        /\ ~available_for_current_ui(containers[i].metadata, ui)
        /\ containers[i].enabled
        /\ containers[i].module = None
        /\ containers[i].error = None
        /\ containers[i].name \notin config_enabled

(***************************************************************************)
(* C5: set_enabled(True) on a container whose load fails with an import    *)
(* failure naming the missing module leaves enabled false and stores an    *)
(* error of the MissingModule kind (a MissingDependency that is no         *)
(* MissingCommand) that carries the name of the module.                    *)
(***************************************************************************)
C5_ImportFailureIsMissingModule ==
    [][ \A k \in 1..Len(NewCalls) :
          LET e == NewCalls[k]
          IN  (IsLoadCall(e) /\ e.raised.cls = "ImportError" /\ e.raised.name # "") =>
                  LET c == ContainerNamed(containers', e.container)
                  IN  /\ ~c.enabled
                      /\ isinstance(c.error, "MissingDependency")
                      /\ isinstance(c.error, "MissingModule")
                      /\ ~isinstance(c.error, "MissingCommand")
                      /\ c.error.dependency = e.raised.name ]_vars

(***************************************************************************)
(* C6: the module loads during set_enabled(True) and its on_load hook      *)
(* raises.                                                                 *)
(***************************************************************************)
\* the host called set_enabled(True) and on_load, the k-th call, raised
C6_Case(k) ==
    /\ op'.name = "set_enabled"
    /\ op'.enabled
    /\ calls'[k].call = "on_load"
    /\ calls'[k].raised # None

\* C6 as claimed: the failure is not propagated and the enable is not
\* reverted, the container ends enabled with no stored error
C6_Original ==
    [][ \A k \in 1..Len(calls') :
          C6_Case(k) =>
              LET c == ContainerNamed(containers', calls'[k].container)
              IN  /\ propagated' = None
                  /\ c.enabled
                  /\ c.error = None ]_vars

\* C6 as amended: the failure is not propagated, and the enable is
\* reverted: the container ends disabled, with the loaded module kept and
\* the failure stored as its error, as it is or, when it is an import
\* failure that names a module, as the cause of a MissingDependency
C6_OnLoadFailureRevertsEnable ==
    [][ \A k \in 1..Len(calls') :
          C6_Case(k) =>
              LET c == ContainerNamed(containers', calls'[k].container)
                  raised == calls'[k].raised
              IN  /\ propagated' = None
                  /\ ~c.enabled
                  /\ IF raised.cls = "ImportError" /\ raised.name # ""
                     THEN /\ isinstance(c.error, "MissingDependency")
                          /\ c.error.dependency = raised.name
                          /\ c.error.cause = raised
                     ELSE c.error = raised
                  /\ c.module # None ]_vars

C6_Witness ==
    /\ op.name = "set_enabled"
    /\ op.enabled
    /\ \E k \in 1..Len(calls) :
        /\ calls[k].call = "on_load"
        /\ calls[k].raised = RuntimeError
        /\ ~ContainerNamed(containers, calls[k].container).enabled
        /\ ContainerNamed(containers, calls[k].container).error = RuntimeError
        /\ ContainerNamed(containers, calls[k].container).module # None

(***************************************************************************)
(* C7: whatever raises while an extension is loaded (the execution of its  *)
(* file, the registration of its default configuration, the instantiation  *)
(* of its entry-point type), set_enabled(True) returns, the container ends *)
(* with enabled false and module null, and error holds the failure: the    *)
(* very exception unless it is an import failure.  Nothing reaches the     *)
(* caller of the manager, in the constructor or in the reaction to a       *)
(* configuration change.  A failure is an exception of the class           *)
(* Exception, the only ones the extensions of the model raise.             *)
(***************************************************************************)
ErrorHolds(error, raised) ==
    IF raised.cls = "ImportError"
    THEN error = raised
         \/ (isinstance(error, "MissingDependency") /\ error.cause = raised)
    ELSE error = raised

C7_LoadFailureIsContained ==
    [][ /\ propagated' = None
        /\ \A k \in 1..Len(NewCalls) :
             LET e == NewCalls[k]
             IN  (IsLoadCall(e) /\ e.raised # None) =>
                     LET c == ContainerNamed(containers', e.container)
                     IN  /\ ~c.enabled
                         /\ c.module = None
                         /\ ErrorHolds(c.error, e.raised)
                         /\ \E j \in (k + 1)..Len(NewCalls) :
                                NewCalls[j] = Returned(c, TRUE) ]_vars

\* a reaction to a configuration change in which the registration of the
\* default configuration raised, after a constructor in which an import
\* failed
C7_Witness ==
    /\ op.name = "config.extensions.enabled"
    /\ \E k \in 1..Len(calls) :
        /\ calls[k].call \in {"register_defaults", "gPodderExtension"}
        /\ calls[k].raised # None
        /\ ~ContainerNamed(containers, calls[k].container).enabled
        /\ ContainerNamed(containers, calls[k].container).module = None
        /\ ContainerNamed(containers, calls[k].container).error = calls[k].raised
    /\ \E i \in 1..Len(containers) :
        /\ containers[i].error.cls = "MissingCommand"
        /\ containers[i].error.cause = ImportError("PIL")

(***************************************************************************)
(* C1: in a dispatch of a lifecycle hook, when the hook of an enabled,     *)
(* loaded container raises, the hooks of the later enabled, loaded         *)
(* containers are still called, nothing is propagated to the caller, and   *)
(* the value returned is the aggregate of what the hooks that did not      *)
(* raise returned.                                                         *)
(***************************************************************************)
\* the aggregate of a sequence of returned values: lists are concatenated,
\* any other value that is not None replaces the aggregate
RECURSIVE AggregateOf(_, _)
AggregateOf(values, aggregate) ==
    IF values = << >> THEN aggregate
    ELSE LET v == Head(values)
         IN  AggregateOf(Tail(values),
                 IF aggregate.cls = "list" /\ v.cls = "list"
                 THEN [aggregate EXCEPT !.items = @ \o v.items]
                 ELSE IF v.cls # "None" THEN v ELSE aggregate)

\* the containers a dispatch of the hook has to call, in dispatch order
DispatchOrder(method_name) ==
    LET reached == SelectSeq(containers,
                       LAMBDA c : /\ c.enabled
                                  /\ c.module # None
                                  /\ method_name \in FileDefines(c.filename))
    IN  [k \in 1..Len(reached) |-> reached[k].name]

C1_RaisingHookIsIsolated ==
    op.name \in HookNames =>
        /\ NamesOf(HookCalls(calls)) = DispatchOrder(op.name)
        /\ propagated = None
        /\ NamesOf(returns)
               = NamesOf(SelectSeq(HookCalls(calls), LAMBDA e : e.raised = None))
        /\ result = AggregateOf([k \in 1..Len(returns) |-> returns[k].value], None)

\* three containers, the second of which raised, and a list made of the
\* entries of the first and the third
C1_Witness ==
    /\ op.name \in HookNames
    /\ Len(HookCalls(calls)) = 3
    /\ calls[1].raised = None
    /\ calls[2].raised # None
    /\ calls[3].raised = None
    /\ result.cls = "list"
    /\ result.items = << Entry(calls[1].container), Entry(calls[3].container) >>

(***************************************************************************)
(* C2: in a dispatch in which every hook that returns returns a list, the  *)
(* value returned is the concatenation of the returned lists in dispatch   *)
(* order, no entry lost and none duplicated.                               *)
(***************************************************************************)
RECURSIVE Concatenation(_)
Concatenation(lists) ==
    IF lists = << >> THEN << >>
    ELSE Head(lists).items \o Concatenation(Tail(lists))

C2_ListsAreConcatenated ==
    (/\ op.name \in HookNames
     /\ returns # << >>
     /\ \A k \in 1..Len(returns) : returns[k].value.cls = "list") =>
        /\ result.cls = "list"
        /\ result.items
               = Concatenation([k \in 1..Len(returns) |-> returns[k].value])

\* extension A returned [x] and extension B returned [y]
C2_Witness ==
    /\ op.name = "on_create_menu"
    /\ Len(returns) = 2
    /\ Len(HookCalls(calls)) = 2
    /\ returns[1].value.cls = "list"
    /\ returns[2].value.cls = "list"
    /\ returns[1].value.items = << Entry(returns[1].container) >>
    /\ returns[2].value.items = << Entry(returns[2].container) >>
    /\ result.items = << Entry(returns[1].container), Entry(returns[2].container) >>

(***************************************************************************)
(* C11: in the state construction leaves and in every state a reaction to  *)
(* a change of the persisted enabled-set leaves, a container whose         *)
(* metadata marks it disabled for the current UI is not enabled, whatever  *)
(* the persisted enabled-set contains.  The code forces such a container   *)
(* off in __init__ only (and there only when its name is in the set);      *)
(* _config_value_changed never looks at disable_in.                        *)
(***************************************************************************)
UiDisabledAreOff(cs) ==
    \A i \in 1..Len(cs) :
        disable_in_current_ui(cs[i].metadata, ui) => ~cs[i].enabled

C11_UiDisabledNeverEnabled ==
    [][op'.name \in {"__init__", "config.extensions.enabled"}
           => UiDisabledAreOff(containers')]_vars

(***************************************************************************)
(* C12: when shutdown() returns, every container is disabled, the          *)
(* container list has the same members in the same order, and every module *)
(* handle (and every other field) is what it was; on_unload was called     *)
(* exactly once on each container that was enabled and whose module        *)
(* defines it, and on no other; a failing on_unload stops nothing, and     *)
(* nothing reaches the caller.                                             *)
(***************************************************************************)
UnloadCalls(log, n) ==
    { k \in 1..Len(log) : log[k].container = n /\ log[k].call = "on_unload" }

C12_ShutdownDisablesAll ==
    [][op'.name = "shutdown" =>
          /\ propagated' = None
          /\ Len(containers') = Len(containers)
          /\ \A i \in 1..Len(containers) :
                /\ ~containers'[i].enabled
                /\ containers'[i] = [containers[i] EXCEPT !.enabled = FALSE]
                /\ Cardinality(UnloadCalls(calls', containers[i].name))
                       = IF /\ containers[i].enabled
                            /\ containers[i].module # None
                            /\ "on_unload" \in FileDefines(containers[i].filename)
                         THEN 1 ELSE 0]_vars

\* two loaded containers shut down, the on_unload of the first failed and
\* the on_unload of the second was called all the same
C12_Witness ==
    /\ op.name = "shutdown"
    /\ Len(containers) = 2
    /\ \A i \in 1..2 : ~containers[i].enabled /\ containers[i].module # None
    /\ Len(calls) = 4
    /\ calls[1] = Call(containers[1], "on_unload", RuntimeError)
    /\ calls[2] = Returned(containers[1], FALSE)
    /\ calls[3] = Call(containers[2], "on_unload", None)
    /\ calls[4] = Returned(containers[2], FALSE)

(***************************************************************************)
(* C13: in every step of any sequence of set_enabled calls, configuration  *)
(* changes and shutdown, a container whose module handle is non-null keeps *)
(* that same handle (disabling never clears it) and nothing of             *)
(* load_extension is called for it again, so that re-enabling it calls     *)
(* on_load only; and a step instantiates the entry-point type of a         *)
(* container successfully at most once and leaves the handle non-null when *)
(* it does.  Hence a container is loaded (file executed and entry point    *)
(* instantiated) successfully at most once.  A load that failed after the  *)
(* file was executed left the handle null and is tried again, file         *)
(* execution included, by the next enable.                                 *)
(***************************************************************************)
Instantiations(log, n) ==
    { k \in 1..Len(log) : /\ log[k].container = n
                          /\ log[k].call = "gPodderExtension"
                          /\ log[k].raised = None }

C13_ModuleLoadedOnceAndKept ==
    [][\A i \in 1..Len(containers') :
          /\ Cardinality(Instantiations(NewCalls, containers'[i].name)) <= 1
          /\ Instantiations(NewCalls, containers'[i].name) # {}
                 => containers'[i].module # None
          /\ (i <= Len(containers) /\ containers[i].module # None) =>
                /\ containers'[i].module = containers[i].module
                /\ \A k \in 1..Len(NewCalls) :
                       NewCalls[k].container = containers[i].name
                           => ~IsLoadCall(NewCalls[k])]_vars

\* a loaded container that was disabled is enabled again by the host: the
\* call runs on_load and nothing of the load
C13_Witness ==
    /\ op.name = "set_enabled"
    /\ op.enabled
    /\ \E i \in 1..Len(containers) :
          /\ containers[i].name = op.container
          /\ containers[i].enabled
          /\ containers[i].module = Module(containers[i])
          /\ calls = << Call(containers[i], "on_load", None),
                        Returned(containers[i], TRUE) >>

(***************************************************************************)
(* C14: a dispatch calls a hook on a container only if the container is    *)
(* enabled and its module handle is non-null; a disabled container and an  *)
(* enabled container that is not loaded are skipped: no hook of theirs is  *)
(* called and nothing is returned by them, and the aggregate is made of    *)
(* the values the called hooks returned and of nothing else.               *)
(***************************************************************************)
Skipped(c) == ~c.enabled \/ c.module = None

C14_OnlyEnabledLoadedAreCalled ==
    op.name \in HookNames =>
        /\ result = AggregateOf([k \in 1..Len(returns) |-> returns[k].value], None)
        /\ \A k \in 1..Len(HookCalls(calls)) :
              \E i \in 1..Len(containers) :
                  /\ containers[i].name = HookCalls(calls)[k].container
                  /\ containers[i].enabled
                  /\ containers[i].module # None
        /\ \A i \in 1..Len(containers) :
              Skipped(containers[i]) =>
                  /\ \A k \in 1..Len(calls) : calls[k].container # containers[i].name
                  /\ \A k \in 1..Len(returns) : returns[k].container # containers[i].name

\* a dispatch over three containers whose modules define the hook, or would:
\* one loaded but disabled, one enabled but not loaded, and one enabled
\* and loaded, the only one called
C14_Witness ==
    /\ op.name \in HookNames
    /\ Len(containers) = 3
    /\ \E i, j, k \in 1..3 :
          /\ ~containers[i].enabled
          /\ containers[i].module # None
          /\ op.name \in FileDefines(containers[i].filename)
          /\ containers[j].enabled
          /\ containers[j].module = None
          /\ op.name \in FileDefines(containers[j].filename)
          /\ containers[k].enabled
          /\ containers[k].module # None
          /\ NamesOf(HookCalls(calls)) = << containers[k].name >>
          /\ result = Object(containers[k].name)

(***************************************************************************)
(* C15: when GPODDER_DISABLE_EXTENSIONS is non-empty at construction, the  *)
(* container list is empty after construction and in every later state:    *)
(* no change of the enabled-set adds a container or loads an extension,    *)
(* and every dispatch of a hook calls no extension hook and returns None.  *)
(***************************************************************************)
C15_DisableAllMeansNoContainers ==
    (environ_disable # "" /\ phase = "running") =>
        /\ containers = << >>
        /\ stack = << >>
        /\ propagated = None
        /\ HookCalls(calls) = << >>
        /\ op.name \in HookNames =>
              /\ calls = << Call(ExtensionManager, op.name, None) >>
              /\ returns = << >>
              /\ result = None

\* a hook dispatched on a manager constructed with the flag set, with an
\* extension file on disk whose name is in the enabled-set
C15_Witness ==
    /\ environ_disable = "1"
    /\ existing # {}
    /\ config_enabled = KnownNames(existing)
    /\ op.name \in HookNames
    /\ containers = << >>
    /\ result = None

(***************************************************************************)
(* C16: check_ui(target, default) returns default when the field is        *)
(* absent; when the field is present it returns true exactly when one of   *)
(* its comma-separated, whitespace-trimmed, non-empty tokens is, whatever  *)
(* its case, the name of a UI flag that is true; a token that names no     *)
(* flag counts as false and nothing is raised.  So "gtk, cli" gives true   *)
(* when gtk is true and cli false, and false when both are false,          *)
(* whatever default is.                                                    *)
(* The flags are the attributes gtk and cli of gpodder.ui; a token naming  *)
(* another attribute of that object is outside the model.                  *)
(***************************************************************************)
SameLetter(x, y) == x = y \/ << x, y >> \in { << "G", "g" >>, << "C", "c" >> }

\* text[a..b] is a whole token once trimmed: only blanks lie between it and
\* the comma, or the end of the text, on either side
IsToken(text, a, b) ==
    /\ \E c \in 0..(a - 1) :
          /\ c = 0 \/ text[c] = ","
          /\ \A j \in (c + 1)..(a - 1) : text[j] = " "
    /\ \E c \in (b + 1)..(Len(text) + 1) :
          /\ c = Len(text) + 1 \/ text[c] = ","
          /\ \A j \in (b + 1)..(c - 1) : text[j] = " "

\* one of the tokens of the text names the flag
NamesFlag(text, flag) ==
    \E a \in 1..Len(text) :
        LET b == a + Len(flag) - 1
        IN  /\ b <= Len(text)
            /\ \A k \in 1..Len(flag) : SameLetter(text[a + k - 1], flag[k])
            /\ IsToken(text, a, b)

LabelOf(key) ==
    CASE key = "desktop-integration" -> "Desktop Integration"
      [] key = "interface" -> "Interface"
      [] key = "post-download" -> "Post download"
      [] OTHER -> "Other"

C17_TitleAndCategoryDefaults ==
    op.name = "ExtensionMetadata" =>
        /\ DOMAIN result.dict = DOMAIN args.metadata \cup {"title", "category"}
        /\ result.dict.title = IF "title" \in DOMAIN args.metadata
                               THEN args.metadata.title ELSE args.name
        /\ result.dict.category = IF "category" \in DOMAIN args.metadata
                                  THEN LabelOf(args.metadata.category)
                                  ELSE "Other"
        /\ result.dict.category
               \in {"Desktop Integration", "Interface", "Post download", "Other"}
        /\ \A key \in DOMAIN args.metadata \ {"title", "category"} :
               result.dict[key] = args.metadata[key]

\* a mapping with no title and a category key that is not in the table
C17_Witness ==
    /\ op.name = "ExtensionMetadata"
    /\ "title" \notin DOMAIN args.metadata
    /\ args.name = Name_1h
    /\ "category" \in DOMAIN args.metadata
    /\ args.metadata.category = "x"
    /\ result.dict.title = Name_1h
    /\ result.dict.category = "Other"

(***************************************************************************)
(* C18: get_extensions() returns, in construction order, exactly the       *)
(* containers whose extension is available for the current UI and is       *)
(* neither mandatory nor disabled in it, whatever the enabled, module and  *)
(* error of each container are, and it changes no state.                   *)
(***************************************************************************)
\* a field of the metadata a file declares names a UI flag that is true
FieldMatches(path, field) ==
    /\ field \in DOMAIN FileMetadata(path)
    /\ \E flag \in DOMAIN ui : ui[flag] /\ NamesFlag(FileMetadata(path)[field], flag)

Listed(path) ==
    /\ "only_for" \in DOMAIN FileMetadata(path) => FieldMatches(path, "only_for")
    /\ ~FieldMatches(path, "mandatory_in")
    /\ ~FieldMatches(path, "disable_in")

Present == { k \in 1..Len(returns) : returns[k].value # None }

\* the aggregate the k-th returning hook met is a list
MetAList(k) ==
    /\ { j \in Present : j < k } # {}
    /\ returns[Last({ j \in Present : j < k })].value.cls = "list"

C19_LastValueReplacesAggregate ==
    op.name \in HookNames =>
        /\ Present = {} => result = None
        /\ (/\ Present # {}
            /\ \/ returns[Last(Present)].value.cls # "list"
               \/ ~MetAList(Last(Present)))
               => result = returns[Last(Present)].value

\* a hook returned a list, the next returned an object that is no list, the
\* last returned None: the dispatch returns the object
C19_Witness ==
    /\ op.name \in HookNames
    /\ Len(returns) = 3
    /\ returns[1].value.cls = "list"
    /\ returns[2].value.cls = "object"
    /\ returns[3].value = None
    /\ result = returns[2].value

(***************************************************************************)
(* C20: set_enabled(true) on an enabled container and set_enabled(false)   *)
(* on a disabled container call nothing (no on_load, no on_unload, nothing *)
(* of the load), raise nothing and leave the container's enabled, module,  *)
(* error and config, and the persisted enabled-set, as they were.          *)
(***************************************************************************)
C20_SetEnabledIsIdempotent ==
    [][op'.name = "set_enabled" =>
          \A i \in 1..Len(containers) :
              (/\ containers[i].name = op'.container
               /\ containers[i].enabled = op'.enabled) =>
                  /\ containers' = containers
                  /\ calls' = << Returned(containers[i], op'.enabled) >>
                  /\ propagated' = None
                  /\ config_enabled' = config_enabled]_vars

\* set_enabled(True) returns from a loaded container whose module defines
\* on_load, and on_load was not called: the container was enabled already
C20_Witness ==
    /\ op.name = "set_enabled"
    /\ op.enabled
    /\ \E i \in 1..Len(containers) :
          /\ containers[i].name = op.container
          /\ containers[i].enabled
          /\ containers[i].module # None
          /\ "on_load" \in FileDefines(containers[i].filename)
          /\ calls = << Returned(containers[i], TRUE) >>

(***************************************************************************)
(* C21: set_enabled(false) on an enabled container always ends with        *)
(* enabled = false: a failure raised by on_unload is swallowed, neither    *)
(* propagated to the caller nor stored in error, and the module handle     *)
(* (like every other field) is kept.                                       *)
(***************************************************************************)
C21_DisableAlwaysDisables ==
    [][(op'.name = "set_enabled" /\ ~op'.enabled) =>
          \A i \in 1..Len(containers) :
              (containers[i].name = op'.container /\ containers[i].enabled) =>
                  /\ propagated' = None
                  /\ containers'
                         = [containers EXCEPT ![i] = [@ EXCEPT !.enabled = FALSE]]
                  /\ calls'[Len(calls')] = Returned(containers'[i], FALSE)
                  /\ \A k \in 1..(Len(calls') - 1) :
                         /\ calls'[k].container = containers[i].name
                         /\ calls'[k].call = "on_unload"]_vars

\* the host disabled a loaded container whose on_unload raised: the
\* container is disabled, its module is kept and no error is stored
C21_Witness ==
    /\ op.name = "set_enabled"
    /\ ~op.enabled
    /\ \E i \in 1..Len(containers) :
          /\ containers[i].name = op.container
          /\ ~containers[i].enabled
          /\ containers[i].module = Module(containers[i])
          /\ containers[i].error = None
          /\ calls = << Call(containers[i], "on_unload", RuntimeError),
                        Returned(containers[i], FALSE) >>
    /\ propagated = None

(***************************************************************************)
(* C22: when the manager has completely finished reacting to a change of   *)
(* the enabled-set (the reactions to its own reverts of the set included), *)
(* every container that is not UI-mandatory is enabled if and only if its  *)
(* name is in the persisted enabled-set.                                   *)
(***************************************************************************)
\* the step ends the reaction to a write that changed the enabled-set
ReactionEnds ==
    /\ op'.name = "config.extensions.enabled"
    /\ stack' = << >>
    /\ stack # << >> \/ config_enabled' # config_enabled

C22_EnabledIffInSetAfterReaction ==
    [][ReactionEnds =>
          \A i \in 1..Len(containers') :
              ~mandatory_in_current_ui(containers'[i].metadata, ui) =>
                  (containers'[i].enabled <=> containers'[i].name \in config_enabled')]_vars

(***************************************************************************)
(* C23: the configuration layer calling the observer synchronously on      *)
(* every write that changes the enabled-set, one change of the set by the  *)
(* host causes at most one enable attempt per container, also when two or  *)
(* more of the newly listed extensions fail to enable.                     *)
(***************************************************************************)
\* the calls set_enabled(True) of container n that a log holds
EnableAttempts(log, n) ==
    { k \in 1..Len(log) : /\ log[k].container = n
                          /\ log[k].call = "set_enabled"
                          /\ log[k].arg }

C23_OneEnableAttemptPerChange ==
    op.name = "config.extensions.enabled" =>
        \A i \in 1..Len(containers) :
            Cardinality(EnableAttempts(calls, containers[i].name)) <= 1

(***************************************************************************)
(* C24: the construction of the manager never modifies the persisted       *)
(* enabled-set: when enabling a container listed in the set fails during   *)
(* construction, the container stays disabled with its error stored and    *)
(* its name remains in the set.                                            *)
(***************************************************************************)
\* a call of the enable of container n raised
EnableFailed(log, n) ==
    \E k \in 1..Len(log) :
        /\ log[k].container = n
        /\ log[k].call \in {"exec_module", "register_defaults",
                            "gPodderExtension", "on_load"}
        /\ log[k].raised # None

C24_ConstructionKeepsTheSet ==
    [][op'.name = "__init__" =>
          /\ config_enabled' = config_enabled
          /\ \A i \in 1..Len(containers') :
                (/\ containers'[i].name \in config_enabled
                 /\ EnableFailed(calls', containers'[i].name)) =>
                    /\ ~containers'[i].enabled
                    /\ containers'[i].error # None
                    /\ containers'[i].name \in config_enabled']_vars

\* right after construction, a container listed in the set is disabled and
\* holds the error of its failed enable
C24_Witness ==
    /\ op.name = "__init__"
    /\ \E i \in 1..Len(containers) :
          /\ containers[i].name \in config_enabled
          /\ EnableFailed(calls, containers[i].name)
          /\ ~containers[i].enabled
          /\ containers[i].error # None

(***************************************************************************)
(* C25: in every state between operations a container that is enabled has  *)
(* no stored error: an error is only ever held by a disabled container,    *)
(* and the next enable that succeeds clears it.                            *)
(***************************************************************************)
C25_EnabledHasNoError ==
    \A i \in 1..Len(containers) :
        containers[i].enabled => containers[i].error = None

\* within one reaction the enable of a container failed, which stored an
\* error, and a later enable of the same container succeeded: the container
\* is enabled and holds no error
C25_Witness ==
    /\ op.name = "config.extensions.enabled"
    /\ stack = << >>
    /\ \E i \in 1..Len(containers) :
          /\ EnableFailed(calls, containers[i].name)
          /\ containers[i].enabled
          /\ containers[i].module # None
          /\ containers[i].error = None

(***************************************************************************)
(* C26: a dispatch of a hook (the hooks not calling back into the manager) *)
(* leaves the container list, every container's enabled, module and error, *)
(* and the persisted enabled-set as they were, also when a hook raises: a  *)
(* hook that raised is called again by the next dispatch of the same hook. *)
(***************************************************************************)
C26_DispatchChangesNoContainer ==
    [][op'.name \in HookNames =>
          /\ containers' = containers
          /\ config_enabled' = config_enabled
          /\ filenames' = filenames
          /\ op.name = op'.name =>
                 NamesOf(HookCalls(calls')) = NamesOf(HookCalls(calls))]_vars

\* after a dispatch in which a hook raised, the container of that hook is
\* enabled and loaded and holds no error
C26_Witness ==
    /\ op.name \in HookNames
    /\ \E k \in 1..Len(calls), i \in 1..Len(containers) :
          /\ calls[k].raised # None
          /\ calls[k].container = containers[i].name
          /\ containers[i].enabled
          /\ containers[i].module # None
          /\ containers[i].error = None

(***************************************************************************)
(* C27: within one dispatch the hooks are called in the order of the       *)
(* container list, which is the order of the file names, the hook of each  *)
(* container at most once; the manager's own body of the hook runs exactly *)
(* once, after the last container was visited, also when a hook raised.    *)
(***************************************************************************)
\* the position of the container of that name
Position(n) == CHOOSE i \in 1..Len(containers) : containers[i].name = n

C27_HooksInOrderThenCoreBody ==
    op.name \in HookNames =>
        /\ \A i, j \in 1..Len(containers) :
               i < j => StrLess(containers[i].filename, containers[j].filename)
        /\ calls # << >>
        /\ calls[Len(calls)] = Call(ExtensionManager, op.name, None)
        /\ \A k \in 1..(Len(calls) - 1) :
               /\ calls[k].call = op.name
               /\ \E i \in 1..Len(containers) : containers[i].name = calls[k].container
        /\ \A j, k \in 1..(Len(calls) - 1) :
               j < k => Position(calls[j].container) < Position(calls[k].container)

\* the hook of the first container raised, the hook of the third returned,
\* and the manager's own body ran after both
C27_Witness ==
    /\ op.name \in HookNames
    /\ Len(containers) = 3
    /\ calls = << Call(containers[1], op.name, RuntimeError),
                  Call(containers[3], op.name, None),
                  Call(ExtensionManager, op.name, None) >>

(***************************************************************************)
(* C28: aggregating list results does not modify a list a hook returned:   *)
(* after the dispatch each returned list holds the entries it held when it *)
(* was returned, the list that became the aggregate and the list an        *)
(* extension keeps and returns again at the next dispatch included.  The   *)
(* code makes the first list returned the aggregate (result = cb_res) and  *)
(* extends that very object with every later list (result.extend).         *)
(***************************************************************************)
C28_ReturnedListsAreNotModified ==
    op.name \in HookNames =>
        \A k \in 1..Len(returns) :
            returns[k].value.cls = "list" =>
                /\ (result.cls = "list" /\ result.id = returns[k].value.id)
                       => result.items = returns[k].value.items
                /\ returns[k].value.id = << returns[k].container, "kept" >>
                       => retained[returns[k].container] = returns[k].value.items

(***************************************************************************)
(* C29: for a container whose module defines on_load and on_unload, in any *)
(* sequence of set_enabled calls, configuration changes and shutdown,      *)
(* every call of on_unload follows a call of on_load that returned, with   *)
(* no other call of on_unload in between: on_unload is never called twice  *)
(* in a row, nor on an extension whose last on_load raised or that was     *)
(* never loaded.  A container being enabled and loaded exactly when its    *)
(* last on_load returned and on_unload was not called since, the property  *)
(* of a step carries over to the whole sequence.                           *)
(***************************************************************************)
\* the log read from its start for container n; live says that on_load
\* returned and on_unload was not called since
RECURSIVE HooksAlternate(_, _, _)
HooksAlternate(log, n, live) ==
    IF log = << >> THEN [ok |-> TRUE, live |-> live]
    ELSE IF Head(log).container # n THEN HooksAlternate(Tail(log), n, live)
    ELSE IF Head(log).call = "on_load"
    THEN HooksAlternate(Tail(log), n, Head(log).raised = None)
    ELSE IF Head(log).call # "on_unload" THEN HooksAlternate(Tail(log), n, live)
    ELSE IF live THEN HooksAlternate(Tail(log), n, FALSE)
    ELSE [ok |-> FALSE, live |-> FALSE]

Live(cs, i) == i <= Len(cs) /\ cs[i].enabled /\ cs[i].module # None

C29_UnloadFollowsLoad ==
    [][\A i \in 1..Len(containers') :
          {"on_load", "on_unload"} \subseteq FileDefines(containers'[i].filename) =>
              /\ HooksAlternate(NewCalls, containers'[i].name,
                                Live(containers, i)).ok
              /\ HooksAlternate(NewCalls, containers'[i].name,
                                Live(containers, i)).live = Live(containers', i)]_vars

\* in a reaction to a change of the set, on_unload of a loaded container
\* was called and returned; the container is disabled and stays loaded
C29_Witness ==
    /\ op.name = "config.extensions.enabled"
    /\ stack = << >>
    /\ \E i \in 1..Len(containers) :
          /\ {"on_load", "on_unload"} \subseteq FileDefines(containers[i].filename)
          /\ calls = << Call(containers[i], "on_unload", None),
                        Returned(containers[i], FALSE) >>
          /\ ~containers[i].enabled
          /\ containers[i].module # None


====
